---- MODULE Spec2Model ----
(***************************************************************************)
(* TexTra (src/app.py): the text pipeline of the application.              *)
(*                                                                         *)
(* A text is a sequence of characters, a character a one-character string. *)
(* Python lists are sequences; Python's 0-based sentence index i is the    *)
(* 1-based index i+1 here.                                                 *)
(***************************************************************************)
EXTENDS Integers, Sequences, FiniteSets, TLC

----------------------------------------------------------------------------
(* Characters: the classes the regular expressions and str methods use.    *)

UpperLetters ==
    << "A", "B", "C", "D", "E", "F", "G", "H", "I", "J", "K", "L", "M",
       "N", "O", "P", "Q", "R", "S", "T", "U", "V", "W", "X", "Y", "Z" >>

LowerLetters ==
    << "a", "b", "c", "d", "e", "f", "g", "h", "i", "j", "k", "l", "m",
       "n", "o", "p", "q", "r", "s", "t", "u", "v", "w", "x", "y", "z" >>

Range(s) == { s[i] : i \in DOMAIN s }

\* [A-Z] and [a-z] of the second lookbehind
UpperAZ == Range(UpperLetters)
LowerAZ == Range(LowerLetters)
IsUpperAZ(c) == c \in UpperAZ
IsLowerAZ(c) == c \in LowerAZ

\* \w : letters, digits and the underscore
WordChars ==
    UpperAZ \cup LowerAZ
        \cup {"0", "1", "2", "3", "4", "5", "6", "7", "8", "9", "_"}
IsWordChar(c) == c \in WordChars

\* \s, and the characters str.split() and str.strip() treat as white space
SpaceChars == {" ", "\n", "\t", "\r"}
IsSpace(c) == c \in SpaceChars

\* str.lower() on one character
ToLower ==
    [c \in UpperAZ |->
        LowerLetters[CHOOSE i \in DOMAIN UpperLetters : UpperLetters[i] = c]]
LowerChar(c) == IF IsUpperAZ(c) THEN ToLower[c] ELSE c

\* str.lower()
Lower(s) == [i \in DOMAIN s |-> LowerChar(s[i])]

----------------------------------------------------------------------------
(* str.strip(), str.split(), " ".join(...)                                 *)

RECURSIVE LStrip(_)
LStrip(s) ==
    IF s # << >> /\ IsSpace(Head(s)) THEN LStrip(Tail(s)) ELSE s

RECURSIVE RStrip(_)
RStrip(s) ==
    IF s # << >> /\ IsSpace(s[Len(s)])
    THEN RStrip(SubSeq(s, 1, Len(s) - 1))
    ELSE s

Strip(s) == RStrip(LStrip(s))

\* str.split(): the maximal runs of non-white-space characters, in order.
\* cur is the run being read, out the runs already closed.
RECURSIVE SplitFrom(_, _, _)
SplitFrom(s, cur, out) ==
    IF s = << >>
    THEN IF cur = << >> THEN out ELSE Append(out, cur)
    ELSE IF IsSpace(Head(s))
         THEN SplitFrom(Tail(s), << >>,
                        IF cur = << >> THEN out ELSE Append(out, cur))
         ELSE SplitFrom(Tail(s), Append(cur, Head(s)), out)

Split(s) == SplitFrom(s, << >>, << >>)

\* " ".join(parts)
RECURSIVE Join(_)
Join(parts) ==
    IF parts = << >> THEN << >>
    ELSE IF Len(parts) = 1 THEN parts[1]
    ELSE parts[1] \o << " " >> \o Join(Tail(parts))

\* mutant: only the first punctuation character is removed (count=1)
StripPunctuation_FirstOnly(s) ==
    LET punct == { i \in DOMAIN s : ~(IsWordChar(s[i]) \/ IsSpace(s[i])) }
    IN  IF punct = {} THEN s
        ELSE LET m == CHOOSE i \in punct : \A j \in punct : i <= j
             IN  SubSeq(s, 1, m - 1) \o SubSeq(s, m + 1, Len(s))

\* re.sub(r'[^\w\s]', '', s)
StripPunctuation(s) == SelectSeq(s, LAMBDA c : IsWordChar(c) \/ IsSpace(c))

\* the normalization of lines 124 and 163: lower-case, then remove every
\* character that is neither a word character nor white space
Normalize(s) == StripPunctuation(Lower(s))

----------------------------------------------------------------------------
(* collections.Counter: keys in first-insertion order, and their counts    *)

RECURSIVE CounterKeys(_)
CounterKeys(words) ==
    IF words = << >> THEN << >>
    ELSE LET rest == CounterKeys(SubSeq(words, 1, Len(words) - 1))
             w    == words[Len(words)]
         IN  IF w \in Range(rest) THEN rest ELSE Append(rest, w)

CounterCount(words, w) == Cardinality({ i \in DOMAIN words : words[i] = w })

----------------------------------------------------------------------------
(* re.split: the pieces of text between the cut positions, in order        *)

\* the elements of a finite set of integers, ascending
SortedPositions(S) ==
    [k \in 1..Cardinality(S) |->
        CHOOSE p \in S : Cardinality({ q \in S : q < p }) = k - 1]

\* every cut is one character wide; the cut characters are dropped
PiecesBetween(text, cuts) ==
    LET c      == SortedPositions(cuts)
        bounds == << 0 >> \o c \o << Len(text) + 1 >>
    IN  [k \in 1..(Len(c) + 1) |->
            SubSeq(text, bounds[k] + 1, bounds[k + 1] - 1)]

\* mutant: the pieces are stripped but the empty ones are kept
StripNonEmpty_KeepEmpty(pieces) == [k \in DOMAIN pieces |-> Strip(pieces[k])]

\* [s.strip() for s in pieces if s.strip()]
StripNonEmpty(pieces) ==
    LET stripped == [k \in DOMAIN pieces |-> Strip(pieces[k])]
    IN  SelectSeq(stripped, LAMBDA s : s # << >>)

----------------------------------------------------------------------------
(* split_into_sentences                                                    *)

\* (?<=\.|\?|\!) : the character before position p is a sentence mark
AfterMark(text, p) == p >= 2 /\ text[p - 1] \in {".", "?", "!"}

\* (?<![A-Z][a-z]\.) : a capital, a small letter and a period end before p
\* mutant: the second lookbehind left out of the pattern
AfterTitle_Off(text, p) == FALSE

AfterTitle(text, p) ==
    /\ p >= 4
    /\ IsUpperAZ(text[p - 3])
    /\ IsLowerAZ(text[p - 2])
    /\ text[p - 1] = "."

\* (?<!\w\.\w.) : word character, period, word character and any character
\* but a newline end before p
\* mutant: the first lookbehind left out of the pattern
AfterAbbreviation_Off(text, p) == FALSE

AfterAbbreviation(text, p) ==
    /\ p >= 5
    /\ IsWordChar(text[p - 4])
    /\ text[p - 3] = "."
    /\ IsWordChar(text[p - 2])
    /\ text[p - 1] # "\n"

\* the pattern matches the single white-space character at position p
IsSentenceBreak(text, p) ==
    /\ p \in DOMAIN text
    /\ IsSpace(text[p])
    /\ AfterMark(text, p)
    /\ ~AfterTitle(text, p)
    /\ ~AfterAbbreviation(text, p)

\* mutant: the text is cut at the sentence marks themselves
split_into_sentences_AtMarks(text) ==
    StripNonEmpty(
        PiecesBetween(text, { p \in DOMAIN text : text[p] \in {".", "?", "!"} }))

\* re.split(pattern, text), then strip() and drop the empty pieces
split_into_sentences(text) ==
    StripNonEmpty(
        PiecesBetween(text, { p \in DOMAIN text : IsSentenceBreak(text, p) }))

----------------------------------------------------------------------------
(* fallback_summarize                                                      *)

\* s = re.sub(r'[^\w\s]', '', s.lower()) for every sentence
ProcessedSentences(sentences) ==
    [i \in DOMAIN sentences |-> StripPunctuation(Lower(sentences[i]))]

\* the words of all processed sentences, in the order the loop counts them
RECURSIVE AllWords(_)
AllWords(processed) ==
    IF processed = << >> THEN << >>
    ELSE Split(Head(processed)) \o AllWords(Tail(processed))

RECURSIVE SumSeq(_)
SumSeq(ns) == IF ns = << >> THEN 0 ELSE Head(ns) + SumSeq(Tail(ns))

\* mutant: the sum is not divided by the number of words
Score_NotNormalized(words, allWords) ==
    [num |-> SumSeq([k \in DOMAIN words |-> CounterCount(allWords, words[k])]),
     den |-> 1]

\* A score is the fraction num/den: the sum of the word frequencies over the
\* number of words, the bare sum (0) over 1 for a sentence without words.
Score(words, allWords) ==
    LET total == SumSeq([k \in DOMAIN words |-> CounterCount(allWords, words[k])])
    IN  IF Len(words) > 0
        THEN [num |-> total, den |-> Len(words)]
        ELSE [num |-> total, den |-> 1]

ScoreLess(a, b) == a.num * b.den < b.num * a.den

\* sentence_scores from the processed sentences and the words word_freq
\* has counted: the pairs (i, score)
SentenceScoresFrom(processed, counted) ==
    [i \in DOMAIN processed |->
        [index |-> i, score |-> Score(Split(processed[i]), counted)]]

\* sentence_scores, word_freq having counted the words of all sentences
SentenceScores(sentences) ==
    LET processed == ProcessedSentences(sentences)
    IN  SentenceScoresFrom(processed, AllWords(processed))

RemoveAt(s, m) == SubSeq(s, 1, m - 1) \o SubSeq(s, m + 1, Len(s))

\* sorted(pairs, key=lambda x: x[1], reverse=True): stable, so among equal
\* scores the pair that came first stays first
RECURSIVE SortedByScoreDesc(_)
SortedByScoreDesc(pairs) ==
    IF pairs = << >> THEN << >>
    ELSE LET m == CHOOSE i \in DOMAIN pairs :
                    /\ \A j \in DOMAIN pairs :
                          ~ScoreLess(pairs[i].score, pairs[j].score)
                    /\ \A j \in 1..(i - 1) :
                          ScoreLess(pairs[j].score, pairs[i].score)
         IN  << pairs[m] >> \o SortedByScoreDesc(RemoveAt(pairs, m))

\* mutant: the second sort (line 143) left out
SortedByIndex_Skipped(pairs) == pairs

\* sorted(pairs, key=lambda x: x[0])
RECURSIVE SortedByIndex(_)
SortedByIndex(pairs) ==
    IF pairs = << >> THEN << >>
    ELSE LET m == CHOOSE i \in DOMAIN pairs :
                    /\ \A j \in DOMAIN pairs : pairs[i].index <= pairs[j].index
                    /\ \A j \in 1..(i - 1) : pairs[j].index > pairs[i].index
         IN  << pairs[m] >> \o SortedByIndex(RemoveAt(pairs, m))

Min(a, b) == IF a <= b THEN a ELSE b
Max(a, b) == IF a >= b THEN a ELSE b

\* mutant: the slice takes one element too many
Take_OneMore(s, n) ==
    IF n >= 0 THEN SubSeq(s, 1, Min(n + 1, Len(s)))
    ELSE SubSeq(s, 1, Max(Len(s) + n + 1, 0))

\* the slice s[:n], for any integer n
Take(s, n) ==
    IF n >= 0 THEN SubSeq(s, 1, Min(n, Len(s)))
    ELSE SubSeq(s, 1, Max(Len(s) + n, 0))

\* top_sentences after both sorts, from sentence_scores
TopSentencesFrom(scores, num_sentences) ==
    SortedByIndex(Take(SortedByScoreDesc(scores), num_sentences))

TopSentences(sentences, num_sentences) ==
    TopSentencesFrom(SentenceScores(sentences), num_sentences)

\* the indices of the sentences the summary is joined from
PickedSentences(sentences, num_sentences) ==
    IF Len(sentences) <= num_sentences
    THEN [i \in DOMAIN sentences |-> i]
    ELSE LET top == TopSentences(sentences, num_sentences)
         IN  [k \in DOMAIN top |-> top[k].index]

\* mutant: a short document is returned as it came, not split and joined
fallback_summarize_RawWhenShort(text, num_sentences) ==
    LET sentences == split_into_sentences(text)
        picked    == PickedSentences(sentences, num_sentences)
    IN  IF Len(sentences) <= num_sentences
        THEN text
        ELSE Join([k \in DOMAIN picked |-> sentences[picked[k]]])

fallback_summarize(text, num_sentences) ==
    LET sentences == split_into_sentences(text)
        picked    == PickedSentences(sentences, num_sentences)
    IN  Join([k \in DOMAIN picked |-> sentences[picked[k]]])

----------------------------------------------------------------------------
(* extract_topics                                                          *)

\* the stop words, each as its sequence of characters
stop_words ==
    {
      <<"t","h","e">>, <<"a","n","d">>, <<"i","s">>, <<"i","n">>,
      <<"o","f">>, <<"f","o","r">>, <<"a">>, <<"a","n">>, <<"t","o">>,
      <<"w","i","t","h">>, <<"o","n">>, <<"a","t">>, <<"b","y">>,
      <<"f","r","o","m">>, <<"a","s">>, <<"a","r","e">>, <<"b","e">>,
      <<"t","h","i","s">>, <<"t","h","a","t">>, <<"i","t">>,
      <<"t","h","e","y">>, <<"w","e">>, <<"y","o","u">>, <<"h","e">>,
      <<"s","h","e">>, <<"t","h","e","m">>, <<"h","i","s">>, <<"h","e","r">>,
      <<"i","t","s">>, <<"t","h","e","i","r">>, <<"o","u","r">>,
      <<"y","o","u","r">>, <<"m","y">>, <<"m","i","n","e">>,
      <<"y","o","u","r","s">>, <<"o","u","r","s">>,
      <<"t","h","e","i","r","s">>, <<"h","i","m">>, <<"h","e","r","s">>,
      <<"u","s">>, <<"m","e">>, <<"i">>, <<"h","a","v","e">>,
      <<"h","a","s">>, <<"h","a","d">>, <<"d","o">>, <<"d","o","e","s">>,
      <<"d","i","d">>, <<"c","a","n">>, <<"c","o","u","l","d">>,
      <<"m","a","y">>, <<"m","i","g","h","t">>, <<"m","u","s","t">>,
      <<"w","i","l","l">>, <<"w","o","u","l","d">>,
      <<"s","h","o","u","l","d">>, <<"a","m">>, <<"a","r","e">>,
      <<"w","a","s">>, <<"w","e","r","e">>, <<"b","e","e","n">>,
      <<"b","e","i","n","g">>, <<"g","e","t">>, <<"g","e","t","s">>,
      <<"g","o","t">>, <<"g","e","t","t","i","n","g">> }

\* Counter(words).items(): the pairs (word, freq) in first-insertion order
CounterItems(words) ==
    LET keys == CounterKeys(words)
    IN  [k \in DOMAIN keys |->
            [word |-> keys[k], freq |-> CounterCount(words, keys[k])]]

\* mutant: the filter tests the length only, not the stop words
FilteredItems_LengthOnly(items) ==
    SelectSeq(items, LAMBDA it : Len(it.word) > 2)

\* the dict comprehension: the items that pass the filter, order kept
FilteredItems(items) ==
    SelectSeq(items, LAMBDA it : it.word \notin stop_words /\ Len(it.word) > 2)

\* mutant: the items are left in insertion order, not sorted by frequency
SortedByFreqDesc_Unsorted(items) == items

\* sorted(items, key=itemgetter(1), reverse=True): stable
RECURSIVE SortedByFreqDesc(_)
SortedByFreqDesc(items) ==
    IF items = << >> THEN << >>
    ELSE LET m == CHOOSE i \in DOMAIN items :
                    /\ \A j \in DOMAIN items : items[j].freq <= items[i].freq
                    /\ \A j \in 1..(i - 1) : items[j].freq < items[i].freq
         IN  << items[m] >> \o SortedByFreqDesc(RemoveAt(items, m))

\* mutant: one item fewer than asked for
most_common_OneFewer(items, n) ==
    IF n <= 0 THEN << >> ELSE Take(SortedByFreqDesc(items), n - 1)

\* Counter.most_common(n) with n given: heapq.nlargest(n, items, key=freq),
\* which is sorted(items, key=freq, reverse=True)[:n] and empty for n <= 0
most_common(items, n) ==
    IF n <= 0 THEN << >> ELSE Take(SortedByFreqDesc(items), n)

\* mutant: the punctuation is not removed before the split
TopicWords_KeepPunctuation(text) == Split(Lower(text))

\* processed_text.split()
TopicWords(text) == Split(StripPunctuation(Lower(text)))

\* the topics from the words word_freq = Counter(words) has counted
TopicsFrom(counted, num_topics) ==
    LET top_topics ==
            most_common(FilteredItems(CounterItems(counted)), num_topics)
    IN  [k \in DOMAIN top_topics |-> top_topics[k].word]

extract_topics(text, num_topics) == TopicsFrom(TopicWords(text), num_topics)

----------------------------------------------------------------------------
(* analyze_text                                                            *)

\* [word.lower() for word in text.split()]
AnalysisWords(text) ==
    LET ws == Split(text) IN [k \in DOMAIN ws |-> Lower(ws[k])]

\* mutant: the blank pieces are counted as sentences
CoarseSentences_KeepBlank(text) ==
    PiecesBetween(text, { p \in DOMAIN text : text[p] \in {".", "!", "?"} })

\* mutant: one segmenter for both, the sentences of split_into_sentences
CoarseSentences_Unified(text) == split_into_sentences(text)

\* re.split(r'[.!?]', text), stripped, the blank pieces dropped
CoarseSentences(text) ==
    StripNonEmpty(
        PiecesBetween(text, { p \in DOMAIN text : text[p] \in {".", "!", "?"} }))

\* mutant: the buckets are cumulative, "at least c times"
WordsWithCount_AtLeast(words, c) ==
    Cardinality({ w \in Range(words) : CounterCount(words, w) >= c })

\* sum(1 for count in word_freq.values() if count == c)
WordsWithCount(words, c) ==
    Cardinality({ w \in Range(words) : CounterCount(words, w) = c })

\* the statistics from the words word_freq = Counter(words) has counted
AnalysisFrom(text, counted) ==
    [ total_words      |-> Len(AnalysisWords(text)),
      total_characters |-> Len(text),
      total_sentences  |-> Len(CoarseSentences(text)),
      single_repeated  |-> WordsWithCount(counted, 2),
      double_repeated  |-> WordsWithCount(counted, 3),
      triple_repeated  |-> WordsWithCount(counted, 4) ]

analyze_text(text) == AnalysisFrom(text, AnalysisWords(text))

----------------------------------------------------------------------------
(* summarize_text                                                          *)

\* The primary strategy (sumy's PlaintextParser and LsaSummarizer) is a
\* library call outside src/app.py. Its outcome is either an exception or,
\* as section 4.3 of the specification describes it, min(N, S) of the
\* sentences in document order; `chosen` is the set of their indices.
PrimaryOutcomes(text, num_sentences) ==
    LET S == Len(split_into_sentences(text))
    IN  { [raised |-> TRUE, chosen |-> {}] }
        \cup { [raised |-> FALSE, chosen |-> I] :
                 I \in { J \in SUBSET (1..S) :
                           Cardinality(J) = Min(Max(num_sentences, 0), S) } }

\* " ".join(str(sentence) for sentence in summary)
PrimarySummary(text, chosen) ==
    LET sentences == split_into_sentences(text)
        idx       == SortedPositions(chosen)
    IN  Join([k \in DOMAIN idx |-> sentences[idx[k]]])

\* mutant: no except clause, the primary strategy's exception leaves the call
summarize_text_Uncaught(text, num_sentences, outcome) ==
    IF outcome.raised
    THEN [raised |-> TRUE, value |-> << >>]
    ELSE [raised |-> FALSE, value |-> PrimarySummary(text, outcome.chosen)]

\* try: ... return the primary summary; except Exception: return the
\* fallback's. The result says whether an exception leaves the function.
summarize_text(text, num_sentences, outcome) ==
    IF outcome.raised
    THEN [raised |-> FALSE, value |-> fallback_summarize(text, num_sentences)]
    ELSE [raised |-> FALSE, value |-> PrimarySummary(text, outcome.chosen)]

----------------------------------------------------------------------------
(* The documents and parameters the operations are called with             *)

\* valid sentence and topic counts range over 1..MaxCount
MaxCount == 3
\* a generated document has at most MaxWords words
MaxWords == 4
\* a blank document has at most MaxBlank white-space characters
MaxBlank == 3
\* a document of whole sentences has at most MaxSentences of them
MaxSentences == 3

\* the functions check no argument: a caller can pass a count below 1
InvalidCounts == { -1, 0 }

Counts == InvalidCounts \cup (1..MaxCount)

RECURSIVE Concat(_)
Concat(parts) ==
    IF parts = << >> THEN << >> ELSE Head(parts) \o Concat(Tail(parts))

\* Documents of sentences. The words: two that qualify as topics and a
\* short word. What follows a word: a space, or a sentence end.
DocWords == { <<"c","a","t">>, <<"d","o","g">>, <<"o","x">> }

DocSeparators == { <<" ">>, <<".", " ">> }

DocUnits == { w \o sep : w \in DocWords, sep \in DocSeparators }

GeneratedTexts ==
    UNION { { Concat(units) : units \in [1..k -> DocUnits] } : k \in 0..MaxWords }

\* Documents of one sentence over a larger vocabulary: a stop word, a third
\* qualifying word, and a word with a capital and a comma that normalizes
\* to "cat".
ListWords ==
    DocWords \cup { <<"t","h","e">>, <<"e","m","u">>, <<"C","a","t",",">> }

WordListTexts ==
    UNION { { Concat([i \in 1..k |-> ws[i] \o <<" ">>]) : ws \in [1..k -> ListWords] }
              : k \in 0..MaxWords }

\* Documents of whole sentences: of one, two and three words, of two words
\* with a capital and punctuation inside, and one without any word.
SentenceForms ==
    { <<"c","a","t",".">>,
      <<"d","o","g"," ","c","a","t",".">>,
      <<"o","x"," ","d","o","g"," ","d","o","g",".">>,
      <<"C","a","t",","," ","o","x","!">>,
      <<"?","!">> }

SentenceTexts ==
    UNION { { Join(forms) : forms \in [1..k -> SentenceForms] }
              : k \in 0..MaxSentences }

\* zero-length and white-space-only documents
BlankTexts ==
    UNION { [1..k -> {" ", "\n", "\t"}] : k \in 0..MaxBlank }

\* the scenario of section 8, item 7
CatText ==
    << "T", "h", "e", " ", "c", "a", "t", " ", "s", "a", "t", ".", " ", "T",
       "h", "e", " ", "c", "a", "t", " ", "r", "a", "n", ".", " ", "T", "h",
       "e", " ", "d", "o", "g", " ", "s", "l", "e", "p", "t", ".", " ", "T",
       "h", "e", " ", "c", "a", "t", " ", "s", "a", "t", " ", "a", "g", "a",
       "i", "n", " ", "t", "o", "d", "a", "y", "." >>

\* the scenario of section 8, item 8
HelloText ==
    << "H", "e", "l", "l", "o", " ", "w", "o", "r", "l", "d", ".", " ", "H",
       "e", "l", "l", "o", " ", "a", "g", "a", "i", "n", "!", " ", "G", "o",
       "o", "d", "b", "y", "e", " ", "w", "o", "r", "l", "d", "." >>

\* words occurring 5, 4, 3, 2 and 1 times; "e" and "e." are two words
RepeatText ==
    << "A", " ", "a", " ", "a", " ", "a", " ", "a", " ", "b", " ", "b", " ",
       "b", " ", "b", " ", "c", " ", "c", " ", "c", " ", "d", " ", "d", " ",
       "e", " ", "e", "." >>

Texts ==
    GeneratedTexts \cup WordListTexts \cup SentenceTexts \cup BlankTexts
        \cup { CatText, HelloText, RepeatText }

----------------------------------------------------------------------------
(* The state: one document and the call made on it                         *)

VARIABLES
    text,       \* the document
    called,     \* the operation called, "none" before the call
    num,        \* its num_sentences or num_topics argument, 0 if it has none
    primary,    \* summarize_text: "raised" or "returned", else "none"
    result,     \* the value the call returned
    picked,     \* fallback_summarize: the sentence indices joined, in order
    raised      \* whether the call ended with an exception

\* two invocations of the text operations running at the same time
VARIABLES
    doc,        \* the text argument of each invocation
    op,         \* the operation each invocation runs
    arg,        \* its num_sentences or num_topics argument, 0 if none
    pc,         \* where each invocation stands
    word_freq,  \* the local word_freq of each invocation: the Counter it names
    counters,   \* the Counter objects: the words each has counted, in order
    cursor,     \* how many of its words each invocation has counted
    out         \* the value each invocation returned

\* one browser session
VARIABLES
    authenticated,  \* st.session_state.authenticated
    page,           \* st.session_state.page
    users,          \* the rows of the users table: email and password hash
    last_click      \* the button clicked last and what was typed with it

\* two sessions calling signup at the same time
VARIABLES
    signup_pc,        \* where the signup call of each session stands
    signup_email,     \* its email argument
    signup_password,  \* its password argument
    signup_count,     \* how many signup calls each session has made
    signup_log        \* the finished signup calls and how each ended, in order

textVars == << text, called, num, primary, result, picked, raised >>
callVars == << doc, op, arg, pc, word_freq, counters, cursor, out >>
uiVars == << authenticated, page, users, last_click >>

signupVars ==
    << signup_pc, signup_email, signup_password, signup_count, signup_log >>

vars == << textVars, callVars, uiVars, signupVars >>

Sessions == { 1, 2 }

\* no signup call is going on
SignupIdle ==
    /\ signup_pc = [s \in Sessions |-> "idle"]
    /\ signup_email = [s \in Sessions |-> ""]
    /\ signup_password = [s \in Sessions |-> ""]
    /\ signup_count = [s \in Sessions |-> 0]
    /\ signup_log = << >>

Invocations == { 1, 2 }

\* no call of a text operation is going on
TextIdle ==
    /\ text = << >>
    /\ called = "none"
    /\ num = 0
    /\ primary = "none"
    /\ result = << >>
    /\ picked = << >>
    /\ raised = FALSE

\* no invocations are running side by side
CallsIdle ==
    /\ doc = [i \in Invocations |-> << >>]
    /\ op = [i \in Invocations |-> "none"]
    /\ arg = [i \in Invocations |-> 0]
    /\ pc = [i \in Invocations |-> "done"]
    /\ word_freq = [i \in Invocations |-> 0]
    /\ counters = [c \in Invocations |-> << >>]
    /\ cursor = [i \in Invocations |-> 0]
    /\ out = [i \in Invocations |-> << >>]

Click(button, email, password, confirm) ==
    [button |-> button, email |-> email, password |-> password,
     confirm |-> confirm]

NoClick == Click("", "", "", "")

\* no session is open
SessionIdle ==
    /\ authenticated = FALSE
    /\ page = "login"
    /\ users = { }
    /\ last_click = NoClick

Init ==
    /\ text \in Texts
    /\ called = "none"
    /\ num = 0
    /\ primary = "none"
    /\ result = << >>
    /\ picked = << >>
    /\ raised = FALSE
    /\ CallsIdle
    /\ SessionIdle
    /\ SignupIdle

CallSplitIntoSentences ==
    /\ called = "none"
    /\ called' = "split_into_sentences"
    /\ result' = split_into_sentences(text)
    /\ UNCHANGED << text, num, primary, picked, raised, callVars, uiVars, signupVars >>

CallFallbackSummarize ==
    /\ called = "none"
    /\ \E n \in Counts :
         /\ num' = n
         /\ result' = fallback_summarize(text, n)
         /\ picked' = PickedSentences(split_into_sentences(text), n)
    /\ called' = "fallback_summarize"
    /\ UNCHANGED << text, primary, raised, callVars, uiVars, signupVars >>

CallSummarizeText ==
    /\ called = "none"
    /\ \E n \in Counts :
         \E outcome \in PrimaryOutcomes(text, n) :
            LET r == summarize_text(text, n, outcome)
            IN  /\ num' = n
                /\ primary' = IF outcome.raised THEN "raised" ELSE "returned"
                /\ result' = r.value
                /\ raised' = r.raised
                /\ picked' = IF outcome.raised
                             THEN PickedSentences(split_into_sentences(text), n)
                             ELSE SortedPositions(outcome.chosen)
    /\ called' = "summarize_text"
    /\ UNCHANGED << text, callVars, uiVars, signupVars >>

CallExtractTopics ==
    /\ called = "none"
    /\ \E k \in Counts :
         /\ num' = k
         /\ result' = extract_topics(text, k)
    /\ called' = "extract_topics"
    /\ UNCHANGED << text, primary, picked, raised, callVars, uiVars, signupVars >>

CallAnalyzeText ==
    /\ called = "none"
    /\ called' = "analyze_text"
    /\ result' = analyze_text(text)
    /\ UNCHANGED << text, num, primary, picked, raised, callVars, uiVars, signupVars >>

Next ==
    \/ CallSplitIntoSentences
    \/ CallFallbackSummarize
    \/ CallSummarizeText
    \/ CallExtractTopics
    \/ CallAnalyzeText

Spec == Init /\ [][Next]_vars

----------------------------------------------------------------------------
(* The two segmenters on documents written character by character          *)

\* a document has at most MaxChars characters
MaxChars == 6

\* a capital, a small letter, two sentence marks and the space
SegAlphabet == { "J", "a", ".", "?", " " }

CharTexts == UNION { [1..k -> SegAlphabet] : k \in 0..MaxChars }

\* an initial, a title and an abbreviation in running text
JSmithText ==
    << "J", ".", " ", "S", "m", "i", "t", "h", " ", "a", "r", "r", "i", "v",
       "e", "d", "." >>

DrWhoText ==
    << "D", "r", ".", " ", "W", "h", "o", " ", "l", "e", "f", "t", "." >>

USArmyText ==
    << "T", "h", "e", " ", "U", ".", "S", ".", " ", "a", "r", "m", "y", " ",
       "c", "a", "m", "e", ".", " ", "I", "t", " ", "l", "e", "f", "t", "." >>

SegTexts == CharTexts \cup { JSmithText, DrWhoText, USArmyText }

InitSeg ==
    /\ text \in SegTexts
    /\ called = "none"
    /\ num = 0
    /\ primary = "none"
    /\ result = << >>
    /\ picked = << >>
    /\ raised = FALSE
    /\ CallsIdle
    /\ SessionIdle
    /\ SignupIdle

NextSeg ==
    \/ CallSplitIntoSentences
    \/ CallAnalyzeText

SpecSeg == InitSeg /\ [][NextSeg]_vars

----------------------------------------------------------------------------
(* Two invocations of the text operations, their steps interleaved         *)

\* a document has at most MaxCallSentences sentences
MaxCallSentences == 2

CallSentences ==
    { << "c", "a", "t", "." >>,
      << "d", "o", "g", " ", "d", "o", "g", " ", "c", "a", "t", "." >> }

CallDocs ==
    { Join(ss) : ss \in UNION { [1..k -> CallSentences] : k \in 1..MaxCallSentences } }

CallOps ==
    { "split_into_sentences", "fallback_summarize", "extract_topics",
      "analyze_text" }

\* num_sentences and num_topics of the invocations
CallCounts == { 1 }

ArgsOf(o) ==
    IF o \in { "fallback_summarize", "extract_topics" } THEN CallCounts ELSE { 0 }

InitCalls ==
    /\ TextIdle
    /\ SessionIdle
    /\ SignupIdle
    /\ doc \in [Invocations -> CallDocs]
    /\ op \in [Invocations -> CallOps]
    /\ arg \in [Invocations -> CallCounts \cup { 0 }]
    /\ \A i \in Invocations : arg[i] \in ArgsOf(op[i])
    /\ pc = [i \in Invocations |-> "start"]
    /\ word_freq = [i \in Invocations |-> 0]
    /\ counters = [c \in Invocations |-> << >>]
    /\ cursor = [i \in Invocations |-> 0]
    /\ out = [i \in Invocations |-> << >>]

\* mutant: word_freq is one Counter at module level, shared by all calls
NewCounter_ModuleLevel(i) == 1

\* Counter(): a new object for the invocation that creates it
NewCounter(i) == i

\* whether the invocation gets as far as creating word_freq
UsesCounter(i) ==
    \/ op[i] \in { "extract_topics", "analyze_text" }
    \/ /\ op[i] = "fallback_summarize"
       /\ Len(split_into_sentences(doc[i])) > arg[i]

\* the words the invocation counts into word_freq, in order
WordsToCount(i) ==
    CASE op[i] = "fallback_summarize" ->
            AllWords(ProcessedSentences(split_into_sentences(doc[i])))
      [] op[i] = "extract_topics" -> TopicWords(doc[i])
      [] op[i] = "analyze_text" -> AnalysisWords(doc[i])
      [] OTHER -> << >>

\* what the invocation returns once word_freq has counted the words counted
ResultFrom(i, counted) ==
    CASE op[i] = "fallback_summarize" ->
            LET sentences == split_into_sentences(doc[i])
                top == TopSentencesFrom(
                           SentenceScoresFrom(ProcessedSentences(sentences),
                                              counted),
                           arg[i])
            IN  Join([k \in DOMAIN top |-> sentences[top[k].index]])
      [] op[i] = "extract_topics" -> TopicsFrom(counted, arg[i])
      [] op[i] = "analyze_text" -> AnalysisFrom(doc[i], counted)

\* split_into_sentences, and fallback_summarize on a short document: the
\* call returns without a word_freq
ReturnWithoutCounter(i) ==
    /\ pc[i] = "start"
    /\ ~UsesCounter(i)
    /\ out' = [out EXCEPT ![i] =
                  IF op[i] = "split_into_sentences"
                  THEN split_into_sentences(doc[i])
                  ELSE Join(split_into_sentences(doc[i]))]
    /\ pc' = [pc EXCEPT ![i] = "done"]
    /\ UNCHANGED << doc, op, arg, word_freq, counters, cursor, textVars, uiVars, signupVars >>

\* word_freq = Counter()
CreateCounter(i) ==
    /\ pc[i] = "start"
    /\ UsesCounter(i)
    /\ word_freq' = [word_freq EXCEPT ![i] = NewCounter(i)]
    /\ counters' = [counters EXCEPT ![NewCounter(i)] = << >>]
    /\ pc' = [pc EXCEPT ![i] = "counting"]
    /\ UNCHANGED << doc, op, arg, cursor, out, textVars, uiVars, signupVars >>

\* word_freq[word] += 1 for the next word
CountWord(i) ==
    /\ pc[i] = "counting"
    /\ cursor[i] < Len(WordsToCount(i))
    /\ counters' = [counters EXCEPT
                       ![word_freq[i]] = Append(@, WordsToCount(i)[cursor[i] + 1])]
    /\ cursor' = [cursor EXCEPT ![i] = @ + 1]
    /\ UNCHANGED << doc, op, arg, pc, word_freq, out, textVars, uiVars, signupVars >>

\* the rest of the call, reading word_freq
ReturnResult(i) ==
    /\ pc[i] = "counting"
    /\ cursor[i] = Len(WordsToCount(i))
    /\ out' = [out EXCEPT ![i] = ResultFrom(i, counters[word_freq[i]])]
    /\ pc' = [pc EXCEPT ![i] = "done"]
    /\ UNCHANGED << doc, op, arg, word_freq, counters, cursor, textVars, uiVars, signupVars >>

NextCalls ==
    \E i \in Invocations :
        \/ ReturnWithoutCounter(i)
        \/ CreateCounter(i)
        \/ CountWord(i)
        \/ ReturnResult(i)

SpecCalls == InitCalls /\ [][NextCalls]_vars

----------------------------------------------------------------------------
(* One session: the pages and their buttons                                *)

Emails == { "ann@x.org", "bob@x.org" }
Passwords == { "pw1", "pw2" }

\* hashlib.sha256(password.encode()).hexdigest(): the digest of a password
\* is not the password, and different passwords have different digests
hash_password(password) == << "sha256", password >>

\* signup: whether the INSERT is reached, the email not being in the table
signup(rows, email, password) == ~\E row \in rows : row.email = email

\* the table after signup
AfterSignup(rows, email, password) ==
    IF signup(rows, email, password)
    THEN rows \cup { [email |-> email, password |-> hash_password(password)] }
    ELSE rows

\* mutant: the SELECT looks for the email only
login_EmailOnly(rows, email, password) == \E row \in rows : row.email = email

\* login: whether a row has this email and the hash of this password
login(rows, email, password) ==
    \E row \in rows :
        row.email = email /\ row.password = hash_password(password)

\* the buttons that call set_page, go_back or go_home on the pages behind
\* the login: the page they are on, their label, the page they lead to, and
\* whether the handler can end without changing the page (blank input, no
\* file, an exception from the translator)
NavButton(on, label, to, mayStay) ==
    [on |-> on, label |-> label, to |-> to, mayStay |-> mayStay]

NavButtons ==
    { NavButton("options", "Open Text Analysis", "text_analysis_input", FALSE),
      NavButton("options", "Open Translation", "translation_input", FALSE),
      NavButton("options", "Open PDF Processor", "pdf_upload", FALSE),
      NavButton("options", "Profile", "user_profile", FALSE),
      NavButton("options", "About", "about", FALSE),
      NavButton("text_analysis_input", "Analyze Text", "text_analysis_results", TRUE),
      NavButton("text_analysis_input", "Back", "options", FALSE),
      NavButton("text_analysis_input", "Home", "options", FALSE),
      NavButton("text_analysis_results", "Back", "text_analysis_input", FALSE),
      NavButton("text_analysis_results", "Home", "options", FALSE),
      NavButton("translation_input", "Detect Language & Continue", "translation_select", TRUE),
      NavButton("translation_input", "Back", "options", FALSE),
      NavButton("translation_input", "Home", "options", FALSE),
      NavButton("translation_select", "Translate Now", "translation_results", TRUE),
      NavButton("translation_select", "Back", "translation_input", FALSE),
      NavButton("translation_select", "Home", "options", FALSE),
      NavButton("translation_results", "Back", "translation_select", FALSE),
      NavButton("translation_results", "Home", "options", FALSE),
      NavButton("pdf_upload", "Process PDF", "pdf_results", TRUE),
      NavButton("pdf_upload", "Back", "options", FALSE),
      NavButton("pdf_upload", "Home", "options", FALSE),
      NavButton("pdf_results", "Back", "pdf_upload", FALSE),
      NavButton("pdf_results", "Home", "options", FALSE),
      NavButton("user_profile", "Back", "options", FALSE),
      NavButton("about", "Back", "options", FALSE),
      NavButton("about", "Home", "options", FALSE) }

\* the buttons whose handlers touch neither the page nor authenticated
OtherButtons ==
    { [on |-> "text_analysis_input", label |-> "Clear Text"],
      [on |-> "pdf_results", label |-> "Download Text"],
      [on |-> "pdf_results", label |-> "Download Summary"],
      [on |-> "pdf_results", label |-> "Download Topics"],
      [on |-> "user_profile", label |-> "Update Password"] }

Pages == { "login" } \cup { b.on : b \in NavButtons } \cup { b.to : b \in NavButtons }

\* whether the script shows the page behind the login: every branch but the
\* first tests st.session_state.authenticated
Shown(p) == authenticated /\ page = p

InitUI ==
    /\ TextIdle
    /\ CallsIdle
    /\ authenticated = FALSE
    /\ page = "login"
    /\ users = { }
    /\ last_click = NoClick
    /\ SignupIdle

\* the login page, "Create Account"
CreateAccount ==
    /\ page = "login"
    /\ \E email \in Emails, password \in Passwords :
         /\ users' = AfterSignup(users, email, password)
         /\ last_click' = Click("Create Account", email, password, "")
    /\ UNCHANGED << authenticated, page, textVars, callVars, signupVars >>

\* the login page, "Sign In"
SignIn ==
    /\ page = "login"
    /\ \E email \in Emails, password \in Passwords :
         /\ IF login(users, email, password)
            THEN authenticated' = TRUE /\ page' = "options"
            ELSE UNCHANGED << authenticated, page >>
         /\ last_click' = Click("Sign In", email, password, "")
    /\ UNCHANGED << users, textVars, callVars, signupVars >>

\* a button with set_page, go_back or go_home in its handler
Navigate ==
    /\ \E b \in NavButtons :
         /\ Shown(b.on)
         /\ \E stays \in { FALSE, b.mayStay } :
              page' = IF stays THEN page ELSE b.to
         /\ last_click' = Click(b.label, "", "", "")
    /\ UNCHANGED << authenticated, users, textVars, callVars, signupVars >>

\* a button that leaves the page as it is
ClickOther ==
    /\ \E b \in OtherButtons :
         /\ Shown(b.on)
         /\ last_click' = Click(b.label, "", "", "")
    /\ UNCHANGED << authenticated, page, users, textVars, callVars, signupVars >>

\* "Logout", on the options page and on the profile page
Logout ==
    /\ Shown("options") \/ Shown("user_profile")
    /\ authenticated' = FALSE
    /\ page' = "login"
    /\ last_click' = Click("Logout", "", "", "")
    /\ UNCHANGED << users, textVars, callVars, signupVars >>

\* the profile page, "Delete My Account": the row stays in the table
DeleteMyAccount ==
    /\ Shown("user_profile")
    /\ \E confirm_delete \in { "DELETE", "" } :
         /\ IF confirm_delete # "DELETE"
            THEN UNCHANGED << authenticated, page >>
            ELSE authenticated' = FALSE /\ page' = "login"
         /\ last_click' = Click("Delete My Account", "", "", confirm_delete)
    /\ UNCHANGED << users, textVars, callVars, signupVars >>

NextUI ==
    \/ CreateAccount
    \/ SignIn
    \/ Navigate
    \/ ClickOther
    \/ Logout
    \/ DeleteMyAccount

SpecUI == InitUI /\ [][NextUI]_vars

----------------------------------------------------------------------------
(* Two sessions calling signup, their statements interleaved               *)

\* a session makes at most MaxSignups signup calls
MaxSignups == 2

InitSignup ==
    /\ TextIdle
    /\ CallsIdle
    /\ SessionIdle
    /\ SignupIdle

\* a finished signup call: "True", "False", or "raised" for an exception
Finished(s, outcome) ==
    [session |-> s, email |-> signup_email[s],
     password |-> signup_password[s], outcome |-> outcome]

\* email TEXT PRIMARY KEY: whether the table takes a row for this email
PrimaryKeyFree(rows, email) == ~\E row \in rows : row.email = email

\* "Create Account" calls signup(email, password)
SignupCall(s) ==
    /\ signup_pc[s] = "idle"
    /\ signup_count[s] < MaxSignups
    /\ \E email \in Emails, password \in Passwords :
         /\ signup_email' = [signup_email EXCEPT ![s] = email]
         /\ signup_password' = [signup_password EXCEPT ![s] = password]
    /\ signup_count' = [signup_count EXCEPT ![s] = @ + 1]
    /\ signup_pc' = [signup_pc EXCEPT ![s] = "select"]
    /\ UNCHANGED << signup_log, textVars, callVars, uiVars >>

\* the SELECT and "if cursor.fetchone(): return False"
SignupSelect(s) ==
    /\ signup_pc[s] = "select"
    /\ IF signup(users, signup_email[s], signup_password[s])
       THEN /\ signup_pc' = [signup_pc EXCEPT ![s] = "insert"]
            /\ UNCHANGED signup_log
       ELSE /\ signup_pc' = [signup_pc EXCEPT ![s] = "idle"]
            /\ signup_log' = Append(signup_log, Finished(s, "False"))
    /\ UNCHANGED << signup_email, signup_password, signup_count, textVars,
                    callVars, uiVars >>

\* the INSERT, conn.commit() and "return True"; the INSERT raises
\* sqlite3.IntegrityError when the table has a row with this email, and
\* nothing in signup or its caller catches it
SignupInsert(s) ==
    /\ signup_pc[s] = "insert"
    /\ IF PrimaryKeyFree(users, signup_email[s])
       THEN /\ users' = users \cup
                          { [email |-> signup_email[s],
                             password |-> hash_password(signup_password[s])] }
            /\ signup_log' = Append(signup_log, Finished(s, "True"))
       ELSE /\ users' = users
            /\ signup_log' = Append(signup_log, Finished(s, "raised"))
    /\ signup_pc' = [signup_pc EXCEPT ![s] = "idle"]
    /\ UNCHANGED << signup_email, signup_password, signup_count,
                    authenticated, page, last_click, textVars, callVars >>

NextSignup ==
    \E s \in Sessions :
        \/ SignupCall(s)
        \/ SignupSelect(s)
        \/ SignupInsert(s)

SpecSignup == InitSignup /\ [][NextSignup]_vars

----------------------------------------------------------------------------
(* Properties                                                              *)

\* the sentences of the document, as the summarizer segments it
Sentences == split_into_sentences(text)

\* the call ran fallback_summarize: directly, or from summarize_text's
\* except clause
OnFallbackPath ==
    \/ called = "fallback_summarize"
    \/ called = "summarize_text" /\ primary = "raised"

Summarized == called \in {"fallback_summarize", "summarize_text"}

\* the sentences at the picked indices, joined by single spaces
JoinedPicks == Join([k \in DOMAIN picked |-> Sentences[picked[k]]])

\* C1: on the fallback path (fallback_summarize called directly, or
\* summarize_text after the primary strategy raised) the summary is the
\* sentences at strictly increasing indices of the segmenter's output: the
\* selection by score never reorders the summary against the document.
C1_SummaryInDocumentOrder ==
    OnFallbackPath =>
        /\ \A k \in 1..(Len(picked) - 1) : picked[k] < picked[k + 1]
        /\ \A k \in DOMAIN picked : picked[k] \in DOMAIN Sentences
        /\ result = JoinedPicks

\* C1 witness: two sentences were selected by score and the one that comes
\* first in the document has the strictly lower score, so the selection
\* order and the document order differ.
C1_Witness ==
    /\ called = "fallback_summarize"
    /\ Len(Sentences) > num
    /\ Len(picked) = 2
    /\ LET scores == SentenceScores(Sentences)
       IN  ScoreLess(scores[picked[1]].score, scores[picked[2]].score)

\* C2: fallback_summarize called with N >= 1 on a text of S sentences joins
\* exactly min(N, S) sentences of split_into_sentences(text), each taken at
\* an index of its own, so never more than N.
C2_ExactlyMinSentences ==
    (called = "fallback_summarize" /\ num >= 1) =>
        /\ Len(picked) = Min(num, Len(Sentences))
        /\ Len(picked) <= num
        /\ \A k \in DOMAIN picked : picked[k] \in DOMAIN Sentences
        /\ \A j, k \in DOMAIN picked : j # k => picked[j] # picked[k]
        /\ result = JoinedPicks

\* C2 witness: more sentences than asked for, and exactly N of them joined.
C2_Witness ==
    /\ called = "fallback_summarize"
    /\ num = 2
    /\ Len(Sentences) = 4
    /\ Len(picked) = 2
    /\ result = JoinedPicks

\* a sentence is trimmed: not empty, no white space at either end
Trimmed(s) == s # << >> /\ ~IsSpace(s[1]) /\ ~IsSpace(s[Len(s)])

\* C3: when the text has S <= N sentences, the summary of fallback_summarize
\* and of summarize_text is all S sentences, each trimmed, in document
\* order, joined by single spaces.
C3_ShortTextKeptWhole ==
    (Summarized /\ Len(Sentences) <= num) =>
        /\ picked = [i \in 1..Len(Sentences) |-> i]
        /\ \A i \in DOMAIN Sentences : Trimmed(Sentences[i])
        /\ result = Join(Sentences)

\* C3 witness: a text of several sentences, no more than N, summarized by
\* summarize_text through its except clause.
C3_Witness ==
    /\ called = "summarize_text"
    /\ primary = "raised"
    /\ Len(Sentences) >= 2
    /\ Len(Sentences) <= num
    /\ result = Join(Sentences)

\* C4: when the primary strategy raises, summarize_text returns what
\* fallback_summarize returns for the same text and N, and no exception
\* leaves the call.
C4_FallbackOnFailure ==
    (called = "summarize_text" /\ primary = "raised") =>
        /\ ~raised
        /\ result = fallback_summarize(text, num)

\* C4 witness: the primary strategy raised on a text with more than N
\* sentences and a summary came back.
C4_Witness ==
    /\ called = "summarize_text"
    /\ primary = "raised"
    /\ ~raised
    /\ Len(Sentences) > num
    /\ result # << >>

\* the tokens of the document that qualify as topics
Qualifying ==
    { w \in Range(TopicWords(text)) : w \notin stop_words /\ Len(w) > 2 }

\* how often a token occurs in the document, and where it occurs first
Frequency(w) == CounterCount(TopicWords(text), w)
FirstSeen(w) ==
    CHOOSE i \in DOMAIN TopicWords(text) :
        /\ TopicWords(text)[i] = w
        /\ \A j \in 1..(i - 1) : TopicWords(text)[j] # w

\* C5: extract_topics(text, K) with K >= 1 returns at most K tokens, exactly
\* K when the text has at least K distinct qualifying tokens, and no token
\* twice.
C5_TopicCountBound ==
    (called = "extract_topics" /\ num >= 1) =>
        /\ Len(result) <= num
        /\ Cardinality(Qualifying) >= num => Len(result) = num
        /\ \A j, k \in DOMAIN result : j # k => result[j] # result[k]

\* C5 witness: more distinct qualifying tokens than K >= 2, and exactly K
\* topics returned.
C5_Witness ==
    /\ called = "extract_topics"
    /\ num >= 2
    /\ Cardinality(Qualifying) > num
    /\ Len(result) = num

\* C6: no token extract_topics returns is a stop word or has length <= 2;
\* a document of stop words and short tokens only has no topics.
C6_NoStopOrShortTopics ==
    called = "extract_topics" =>
        /\ \A k \in DOMAIN result :
              result[k] \notin stop_words /\ Len(result[k]) > 2
        /\ (\A w \in Range(TopicWords(text)) : w \in stop_words \/ Len(w) <= 2)
              => result = << >>

\* C6 witness: a stop word is the most frequent token of the document, a
\* short token occurs too, and topics are returned.
C6_Witness ==
    /\ called = "extract_topics"
    /\ result # << >>
    /\ \E w \in Range(TopicWords(text)) :
          w \in stop_words /\ Frequency(w) > Frequency(result[1])
    /\ \E w \in Range(TopicWords(text)) : w \notin stop_words /\ Len(w) <= 2

\* a ranks before b: more frequent, or as frequent and seen first
RanksBefore(a, b) ==
    \/ Frequency(a) > Frequency(b)
    \/ Frequency(a) = Frequency(b) /\ FirstSeen(a) < FirstSeen(b)

\* C7: the topics are qualifying tokens in descending frequency, the first
\* encountered first among equally frequent ones; every qualifying token
\* left out is less frequent than each topic, or as frequent and first seen
\* later.
C7_TopicsRankedByFrequency ==
    (called = "extract_topics" /\ num >= 1) =>
        /\ \A k \in DOMAIN result : result[k] \in Qualifying
        /\ \A j, k \in DOMAIN result :
              j < k => RanksBefore(result[j], result[k])
        /\ \A w \in Qualifying \ Range(result) :
              \A k \in DOMAIN result : RanksBefore(result[k], w)

\* C7 witness: two topics are returned, the more frequent one first although
\* it is seen later in the document, and a qualifying token as frequent as
\* the last topic is left out.
C7_Witness ==
    /\ called = "extract_topics"
    /\ Len(result) = 2
    /\ Frequency(result[1]) > Frequency(result[2])
    /\ FirstSeen(result[1]) > FirstSeen(result[2])
    /\ \E w \in Qualifying \ Range(result) :
          Frequency(w) = Frequency(result[2])

\* the qualifying tokens of the document that occur c times
QualifyingWithCount(c) == { w \in Qualifying : Frequency(w) = c }

\* C8: for "The cat sat. The cat ran. The dog slept. The cat sat again
\* today." extract_topics(text, 2) returns ["cat", "sat"]; of the qualifying
\* tokens cat occurs 3 times, sat twice and every other one once.
C8_CatScenario ==
    (text = CatText /\ called = "extract_topics" /\ num = 2) =>
        /\ result = << <<"c","a","t">>, <<"s","a","t">> >>
        /\ QualifyingWithCount(3) = { <<"c","a","t">> }
        /\ QualifyingWithCount(2) = { <<"s","a","t">> }
        /\ \A w \in Qualifying \ { <<"c","a","t">>, <<"s","a","t">> } :
              Frequency(w) = 1

\* C8 witness: the scenario's call was made and returned two topics.
C8_Witness ==
    /\ text = CatText
    /\ called = "extract_topics"
    /\ num = 2
    /\ Len(result) = 2
    /\ Cardinality(Qualifying) = 7

\* C9: for "Hello world. Hello again! Goodbye world." analyze_text returns
\* 6 words, 3 sentences, 2 words occurring exactly twice, none occurring
\* exactly three times and none exactly four times.
C9_HelloScenario ==
    (text = HelloText /\ called = "analyze_text") =>
        /\ result.total_words = 6
        /\ result.total_sentences = 3
        /\ result.single_repeated = 2
        /\ result.double_repeated = 0
        /\ result.triple_repeated = 0

\* C9 witness: the scenario's call was made; the two words counted as
\* occurring twice are "hello" and "world." (the period is part of the word).
C9_Witness ==
    /\ text = HelloText
    /\ called = "analyze_text"
    /\ result.single_repeated = 2
    /\ { w \in Range(AnalysisWords(text)) :
           CounterCount(AnalysisWords(text), w) = 2 }
         = { <<"h","e","l","l","o">>, <<"w","o","r","l","d",".">> }

\* the document is empty or all white space
Blank == \A i \in DOMAIN text : IsSpace(text[i])

\* C10: on a zero-length or white-space-only text no operation raises; the
\* segmenter returns no sentence, extract_topics no topic, and both
\* summarizers the empty string, for every N >= 1 and K >= 1.
C10_BlankTextEmptyResults ==
    (Blank /\ called # "none") =>
        /\ ~raised
        /\ called \in { "split_into_sentences", "extract_topics",
                        "fallback_summarize", "summarize_text" }
              => result = << >>

\* C10 witness: a text of several white-space characters was summarized and
\* the summary is empty.
C10_Witness ==
    /\ Blank
    /\ Len(text) >= 2
    /\ called = "fallback_summarize"
    /\ num >= 1
    /\ result = << >>
    /\ ~raised

\* C11 (as claimed): a call of fallback_summarize, summarize_text or
\* extract_topics with a count below 1 is rejected with an error instead of
\* returning a result.
C11_InvalidCountRejected ==
    (called \in {"fallback_summarize", "summarize_text", "extract_topics"}
        /\ num < 1) => raised

\* C12: normalization is idempotent: normalizing the normalized text
\* changes nothing, so its tokens, its frequency table and the topics
\* extracted from it are those of the text itself.
C12_NormalizationIdempotent ==
    called = "extract_topics" =>
        LET n == Normalize(text)
        IN  /\ Normalize(n) = n
            /\ Split(Normalize(n)) = Split(n)
            /\ Split(n) = TopicWords(text)
            /\ CounterItems(Split(Normalize(n))) = CounterItems(TopicWords(text))
            /\ extract_topics(n, num) = result

\* C12 witness: the text has two capitals and two punctuation characters,
\* so normalization changes it, and topics were extracted from it.
C12_Witness ==
    /\ called = "extract_topics"
    /\ Cardinality({ i \in DOMAIN text : IsUpperAZ(text[i]) }) >= 2
    /\ Cardinality({ i \in DOMAIN text :
                       ~(IsWordChar(text[i]) \/ IsSpace(text[i])) }) >= 2
    /\ Normalize(text) # text
    /\ result # << >>

\* the lower-cased white-space-split words of the document occurring c times
OccurringTimes(c) ==
    { w \in Range(AnalysisWords(text)) :
        CounterCount(AnalysisWords(text), w) = c }

\* the positions where a white-space-split word starts
WordStarts ==
    { i \in DOMAIN text :
        ~IsSpace(text[i]) /\ (i = 1 \/ IsSpace(text[i - 1])) }

\* C13: analyze_text's repetition counters are exact-count buckets over the
\* lower-cased white-space-split words: the numbers of distinct words
\* occurring exactly 2, exactly 3 and exactly 4 times. A word occurring once
\* or 5 times and more is in no bucket, no word is in two. total_words is
\* the number of white-space-split words, total_characters the raw length.
C13_ExactCountBuckets ==
    called = "analyze_text" =>
        /\ result.single_repeated = Cardinality(OccurringTimes(2))
        /\ result.double_repeated = Cardinality(OccurringTimes(3))
        /\ result.triple_repeated = Cardinality(OccurringTimes(4))
        /\ result.single_repeated + result.double_repeated
             + result.triple_repeated
             = Cardinality(OccurringTimes(2) \cup OccurringTimes(3)
                             \cup OccurringTimes(4))
        /\ result.total_words = Cardinality(WordStarts)
        /\ result.total_characters = Len(text)

\* C13 witness: a text with a word occurring 5 times, one occurring once
\* and one word in each bucket.
C13_Witness ==
    /\ called = "analyze_text"
    /\ \E w \in Range(AnalysisWords(text)) :
          CounterCount(AnalysisWords(text), w) >= 5
    /\ OccurringTimes(1) # {}
    /\ result.single_repeated = 1
    /\ result.double_repeated = 1
    /\ result.triple_repeated = 1

\* the normalized tokens of every sentence
SentenceTokens(sents) ==
    LET tokens == [i \in DOMAIN sents |-> Split(Normalize(sents[i]))]
    IN  SubSeq(tokens, 1, Len(tokens))

\* how often token w occurs in all sentences together
GlobalFrequency(tokens, w) ==
    SumSeq([i \in DOMAIN tokens |->
               Cardinality({ k \in DOMAIN tokens[i] : tokens[i][k] = w })])

\* for every sentence, the sum of the global frequencies of its tokens
FrequencySum(tokens) ==
    LET sums == [i \in DOMAIN tokens |->
                    SumSeq([k \in DOMAIN tokens[i] |->
                               GlobalFrequency(tokens, tokens[i][k])])]
    IN  SubSeq(sums, 1, Len(sums))

\* the score of sentence i is sums[i] / Len(tokens[i]), or 0 without
\* tokens; scores are compared by cross-multiplication
TokenCount(tokens, i) == Len(tokens[i])
ScoreHigher(tokens, sums, i, j) ==
    sums[i] * Max(TokenCount(tokens, j), 1)
        > sums[j] * Max(TokenCount(tokens, i), 1)
ScoreEqual(tokens, sums, i, j) ==
    ~ScoreHigher(tokens, sums, i, j) /\ ~ScoreHigher(tokens, sums, j, i)

\* C14: with more than N >= 1 sentences, fallback_summarize scores a
\* sentence by the sum of its tokens' global frequencies divided by its
\* token count, 0 for a sentence without tokens (no division error), and
\* selects the N highest-scoring sentences, the earlier one on equal
\* scores: no unselected sentence scores higher than a selected one, and an
\* unselected one tied with a selected one has the larger index.
C14_HighestScoresSelected ==
    (OnFallbackPath /\ num >= 1 /\ Len(Sentences) > num) =>
        LET sents  == Sentences
            scores == SentenceScores(sents)
            tokens == SentenceTokens(sents)
            sums   == FrequencySum(tokens)
            chosen == Range(picked)
        IN  /\ ~raised
            /\ \A i \in DOMAIN sents :
                  /\ scores[i].index = i
                  /\ scores[i].score.num * Max(TokenCount(tokens, i), 1)
                        = sums[i] * scores[i].score.den
                  /\ TokenCount(tokens, i) = 0 => scores[i].score.num = 0
            /\ Cardinality(chosen) = num
            /\ \A i \in chosen : \A j \in DOMAIN sents \ chosen :
                  /\ ~ScoreHigher(tokens, sums, j, i)
                  /\ ScoreEqual(tokens, sums, i, j) => j > i

\* C14 witness: a sentence without tokens is among the sentences, a selected
\* sentence has several tokens, and an unselected sentence is tied with a
\* selected one.
C14_Witness ==
    /\ called = "fallback_summarize"
    /\ num >= 1
    /\ Len(Sentences) > num
    /\ LET tokens == SentenceTokens(Sentences)
           sums   == FrequencySum(tokens)
       IN  /\ \E i \in DOMAIN tokens : TokenCount(tokens, i) = 0
           /\ \E i \in Range(picked) : TokenCount(tokens, i) >= 2
           /\ \E i \in Range(picked) :
                 \E j \in DOMAIN tokens \ Range(picked) :
                    ScoreEqual(tokens, sums, i, j) /\ sums[i] > 0

\* the first position from pos on that holds no white space, Len(txt) + 1
\* if there is none
FirstNonSpace(txt, pos) ==
    LET rest == { q \in pos..Len(txt) : ~IsSpace(txt[q]) }
    IN  IF rest = {} THEN Len(txt) + 1
        ELSE CHOOSE q \in rest : \A r \in rest : q <= r

\* where the sentences lie in the text if they cover its non-white-space
\* characters in order: each starts at the first such character after the
\* one before it
RECURSIVE Placement(_, _, _)
Placement(txt, pos, sents) ==
    IF sents = << >> THEN << >>
    ELSE LET p == FirstNonSpace(txt, pos)
         IN  << p >> \o Placement(txt, p + Len(Head(sents)), Tail(sents))

SentenceStart(k) == Placement(text, 1, result)[k]
SentenceEnd(k) == SentenceStart(k) + Len(result[k]) - 1

\* C15: split_into_sentences returns the sentences in order of appearance,
\* each a contiguous piece of the text, not empty, without white space at
\* either end; the pieces are separated by white space only, so no boundary
\* lies inside a word and every non-white-space character of the text is in
\* exactly one sentence.
C15_SentencesTileTheText ==
    called = "split_into_sentences" =>
        /\ \A k \in DOMAIN result :
              /\ Trimmed(result[k])
              /\ SentenceEnd(k) <= Len(text)
              /\ SubSeq(text, SentenceStart(k), SentenceEnd(k)) = result[k]
              /\ SentenceEnd(k) < Len(text) => IsSpace(text[SentenceEnd(k) + 1])
        /\ LET after == IF result = << >> THEN 1
                        ELSE SentenceEnd(Len(result)) + 1
           IN  FirstNonSpace(text, after) = Len(text) + 1

\* C15 witness: two sentences, white space before the first, more than
\* one white-space character between two of them, and white space at the end.
C15_Witness ==
    /\ called = "split_into_sentences"
    /\ Len(result) = 2
    /\ IsSpace(text[1])
    /\ IsSpace(text[Len(text)])
    /\ SentenceStart(2) > SentenceEnd(1) + 2

\* the white-space positions right after a sentence that is not the last:
\* the places where the text was split
BoundaryPositions == { SentenceEnd(k) + 1 : k \in 1..(Len(result) - 1) }

MoreTextAfter(p) == FirstNonSpace(text, p) <= Len(text)

\* a capital letter and a period right before the white space at p
InitialBefore(p) ==
    /\ p \in DOMAIN text
    /\ p >= 3
    /\ IsSpace(text[p])
    /\ text[p - 1] = "."
    /\ IsUpperAZ(text[p - 2])

\* a capital letter, a small letter and a period right before the white
\* space at p
TitleBefore(p) ==
    /\ p \in DOMAIN text
    /\ p >= 4
    /\ IsSpace(text[p])
    /\ text[p - 1] = "."
    /\ IsLowerAZ(text[p - 2])
    /\ IsUpperAZ(text[p - 3])

\* C16 as stated: split_into_sentences does not split at the white space
\* that follows a single capital letter and its period, so "J. Smith
\* arrived." stays one sentence.
C16_InitialNotSplit ==
    called = "split_into_sentences" =>
        /\ \A p \in DOMAIN text :
              (InitialBefore(p) /\ (p = 3 \/ ~IsWordChar(text[p - 3])))
                  => p \notin BoundaryPositions
        /\ text = JSmithText => Len(result) = 1

\* C16 amended: split_into_sentences does not split at the white space that
\* follows a capital letter, a small letter and a period ("Dr."); after a
\* lone capital initial and its period, at the start of the text or after
\* white space, it does split when more text follows: "J. Smith arrived."
\* gives "J." and "Smith arrived.".
C16_TitleNotSplit ==
    called = "split_into_sentences" =>
        /\ \A p \in DOMAIN text :
              /\ TitleBefore(p) => p \notin BoundaryPositions
              /\ ( /\ InitialBefore(p)
                   /\ (p = 3 \/ IsSpace(text[p - 3]))
                   /\ MoreTextAfter(p) ) => p \in BoundaryPositions
        /\ text = JSmithText =>
              result = << SubSeq(JSmithText, 1, 2), SubSeq(JSmithText, 4, 17) >>
        /\ text = DrWhoText => result = << DrWhoText >>

\* C16 witness: "J. Smith arrived." was segmented.
C16_Witness ==
    /\ called = "split_into_sentences"
    /\ text = JSmithText
    /\ InitialBefore(3)
    /\ Len(result) = 2

\* '.', '?' or '!' right before position p
MarkBefore(p) == p >= 2 /\ text[p - 1] \in { ".", "?", "!" }

\* a word character, a period, a word character and one more character
\* right before position p
AbbreviationBefore(p) ==
    /\ p >= 5
    /\ IsWordChar(text[p - 4])
    /\ text[p - 3] = "."
    /\ IsWordChar(text[p - 2])

\* C17: split_into_sentences splits at a white-space character right after
\* '.', '?' or '!' unless a lookbehind suppresses it (seen as a boundary
\* when more text follows); it never splits at the white space after a
\* "U.S."-style abbreviation, nor at white space that does not follow one
\* of the three marks.
C17_SplitPoints ==
    called = "split_into_sentences" =>
        \A p \in DOMAIN text :
            /\ ( /\ IsSpace(text[p])
                 /\ MarkBefore(p)
                 /\ ~TitleBefore(p)
                 /\ ~AbbreviationBefore(p)
                 /\ MoreTextAfter(p) ) => p \in BoundaryPositions
            /\ AbbreviationBefore(p) => p \notin BoundaryPositions
            /\ ~MarkBefore(p) => p \notin BoundaryPositions

\* C17 witness: "The U.S. army came. It left." was segmented: no split
\* after "U.S.", none after "The" or "army", one after "came.".
C17_Witness ==
    /\ called = "split_into_sentences"
    /\ text = USArmyText
    /\ IsSpace(text[9]) /\ MarkBefore(9) /\ AbbreviationBefore(9)
    /\ IsSpace(text[4]) /\ ~MarkBefore(4)
    /\ BoundaryPositions = { 20 }

IsMark(c) == c \in { ".", "!", "?" }

\* neither white space nor a sentence mark
IsTextChar(c) == ~IsSpace(c) /\ ~IsMark(c)

\* the first text character of every non-blank piece between marks: a text
\* character with no text character before it in its piece
PieceStarts ==
    { q \in DOMAIN text :
        /\ IsTextChar(text[q])
        /\ \A r \in 1..(q - 1) :
              IsTextChar(text[r]) => \E m \in (r + 1)..(q - 1) : IsMark(text[m]) }

\* the number of sentences split_into_sentences finds in the same text
SummarySentenceCount == Len(split_into_sentences(text))

\* a mark directly followed by a text character
MarkBeforeText == \E m \in 1..(Len(text) - 1) :
                      IsMark(text[m]) /\ IsTextChar(text[m + 1])

\* a mark directly between two text characters
MarkInsideWord == \E m \in 2..(Len(text) - 1) :
                      /\ IsMark(text[m])
                      /\ IsTextChar(text[m - 1])
                      /\ IsTextChar(text[m + 1])

\* white space after a mark where a lookbehind applies
RuleApplies(p) ==
    /\ p \in DOMAIN text
    /\ IsSpace(text[p])
    /\ MarkBefore(p)
    /\ (AbbreviationBefore(p) \/ TitleBefore(p))

\* a lookbehind keeps a mark and the words after it in one sentence
SuppressedBeforeText ==
    \E p \in DOMAIN text :
        /\ RuleApplies(p)
        /\ MoreTextAfter(p)
        /\ IsTextChar(text[FirstNonSpace(text, p)])

\* every sentence of split_into_sentences holds a text character
NoMarkOnlySentence ==
    LET sents == split_into_sentences(text)
    IN  \A k \in DOMAIN sents : \E q \in DOMAIN sents[k] : IsTextChar(sents[k][q])

MarkInsideText == << "a", ".", "a" >>
AbbreviationText == << "a", ".", "a", ".", " ", "a" >>

\* C18 as stated: total_sentences counts the non-blank pieces between the
\* marks, and it differs from the number of sentences split_into_sentences
\* finds on every text where a mark is not followed by white space (here
\* even: is followed by a text character) or where an abbreviation rule
\* applies.
C18_CountsDifferOnEveryText ==
    called = "analyze_text" =>
        /\ result.total_sentences = Cardinality(PieceStarts)
        /\ (MarkBeforeText \/ \E p \in DOMAIN text : RuleApplies(p))
               => result.total_sentences # SummarySentenceCount

\* C18 amended: total_sentences is the number of non-blank pieces obtained
\* by cutting at every '.', '!' or '?'; the routine is a different function
\* from split_into_sentences: "a.a" counts 2 against 1 and "a.a. a" 3
\* against 1.  When every sentence of split_into_sentences holds a
\* character other than marks, total_sentences is never smaller, and it is
\* larger when a mark stands directly between two text characters or a
\* lookbehind suppresses the split between a mark and following words.
C18_CoarseCount ==
    called = "analyze_text" =>
        /\ result.total_sentences = Cardinality(PieceStarts)
        /\ text = MarkInsideText =>
              result.total_sentences = 2 /\ SummarySentenceCount = 1
        /\ text = AbbreviationText =>
              result.total_sentences = 3 /\ SummarySentenceCount = 1
        /\ NoMarkOnlySentence =>
              /\ result.total_sentences >= SummarySentenceCount
              /\ (MarkInsideWord \/ SuppressedBeforeText)
                    => result.total_sentences > SummarySentenceCount

\* C18 witness: a text with a mark inside a word and an abbreviation was
\* analyzed, and the two counts differ.
C18_Witness ==
    /\ called = "analyze_text"
    /\ text = AbbreviationText
    /\ MarkInsideWord
    /\ RuleApplies(5)
    /\ result.total_sentences # SummarySentenceCount

\* what the invocation returns when it runs alone
RunAlone(i) ==
    CASE op[i] = "split_into_sentences" -> split_into_sentences(doc[i])
      [] op[i] = "fallback_summarize" -> fallback_summarize(doc[i], arg[i])
      [] op[i] = "extract_topics" -> extract_topics(doc[i], arg[i])
      [] op[i] = "analyze_text" -> analyze_text(doc[i])

SameCall(i, j) == op[i] = op[j] /\ doc[i] = doc[j] /\ arg[i] = arg[j]

\* C19: the operations keep no state between calls.  However the steps of
\* two invocations interleave, the word_freq of an invocation holds the
\* words of its own document only, each invocation returns what it returns
\* when run alone, and two calls with the same arguments return the same.
C19_InvocationsIndependent ==
    \A i \in Invocations :
        /\ pc[i] = "counting" =>
              counters[word_freq[i]] = SubSeq(WordsToCount(i), 1, cursor[i])
        /\ pc[i] = "done" => out[i] = RunAlone(i)
        /\ \A j \in Invocations :
              (pc[i] = "done" /\ pc[j] = "done" /\ SameCall(i, j))
                  => out[i] = out[j]

\* C19 witness: the first invocation has counted words and returned while
\* the second, on another document, is in the middle of its counting.
C19_Witness ==
    /\ pc[1] = "done"
    /\ UsesCounter(1)
    /\ out[1] = RunAlone(1)
    /\ pc[2] = "counting"
    /\ 0 < cursor[2] /\ cursor[2] < Len(WordsToCount(2))
    /\ doc[1] # doc[2]

\* the click asks to end the session
EndsSession(click) ==
    \/ click.button = "Logout"
    \/ click.button = "Delete My Account" /\ click.confirm = "DELETE"

\* C20: on every page but "login" the session is authenticated;
\* authenticated becomes true only with a click on "Sign In" whose email
\* and password hash are a row of the users table; Logout and a confirmed
\* Delete My Account leave authenticated false and the page "login" in one
\* step, and authenticated never becomes false in another way.
C20_LoginGate ==
    /\ [](page # "login" => authenticated)
    /\ [][ /\ (~authenticated /\ authenticated') =>
                /\ last_click'.button = "Sign In"
                /\ [email |-> last_click'.email,
                    password |-> hash_password(last_click'.password)] \in users
           /\ (last_click' # last_click /\ EndsSession(last_click')) =>
                (~authenticated' /\ page' = "login")
           /\ (authenticated /\ ~authenticated') =>
                (EndsSession(last_click') /\ page' = "login")
         ]_vars

\* C20 witness: an account was created, its owner signed in, went to the
\* profile page, and deleted the account or logged out from there.
C20_Witness ==
    /\ users # { }
    /\ EndsSession(last_click)
    /\ ~authenticated
    /\ page = "login"

\* the finished signup calls for an email, and those that returned True
SignupsFor(email) ==
    { k \in DOMAIN signup_log : signup_log[k].email = email }
SuccessfulSignupsFor(email) ==
    { k \in SignupsFor(email) : signup_log[k].outcome = "True" }

\* C21: however the signup calls of two sessions interleave, exactly one
\* signup per email returns True, every other signup for that email
\* returns False and none raises, the table holds at most one row per
\* email, and login(email, p) succeeds exactly for the password of the
\* signup that returned True.
C21_OneSignupPerEmail ==
    \A email \in Emails :
        /\ SignupsFor(email) # { } =>
              Cardinality(SuccessfulSignupsFor(email)) = 1
        /\ \A k \in SignupsFor(email) \ SuccessfulSignupsFor(email) :
              signup_log[k].outcome = "False"
        /\ Cardinality({ row \in users : row.email = email }) <= 1
        /\ \A k \in SuccessfulSignupsFor(email) : \A p \in Passwords :
              login(users, email, p) <=> p = signup_log[k].password

====
